---- MODULE Spec2Model ----
(***************************************************************************)
(* Model of the consultant bot of keloki-designer/Zews:                    *)
(*   - GoogleCalendarIntegration.get_available_slots (the slot finder),    *)
(*   - ConsultantBot._check_if_slot_selected (selection parsing),          *)
(*   - ConsultantBot.process_message (the conversation state machine).     *)
(* Instants are whole seconds counted from midnight of date 0; a date is   *)
(* the index of its day.                                                   *)
(***************************************************************************)
EXTENDS Integers, Sequences, FiniteSets, TLC

VARIABLES
    fNow,       \* datetime.utcnow() read by get_available_slots
    fEvents,    \* events_result['items'] returned by the calendar backend
    fDays,      \* argument days
    fDuration,  \* argument duration_minutes
    fService,   \* whether _initialize_service() and events().list() succeeded
    fDone,      \* whether get_available_slots has returned
    fResult,    \* the list it returned
    pText,      \* message_text given to _check_if_slot_selected
    pSlots,     \* available_slots given to it
    pDone,      \* whether it has returned
    pResult,    \* what it returned
    conversation_context,  \* ConsultantBot.conversation_context: user id -> context
    turn,       \* the last message processed: sender, text, the context before
                \* it, and what each collaborator answered in that turn
    calls,      \* the collaborator calls of that turn, in order
    turns,      \* number of messages processed so far
    handlers,   \* the invocations of message_handler, each with the await
                \* it is suspended at and its local variables
    life        \* the controller's buttons and the thread that runs
                \* ConsultantBot.run: position in _start, is_running, the
                \* Telegram client, ControllerBot.running and the status label

finderVars == <<fNow, fEvents, fDays, fDuration, fService, fDone, fResult>>

parserVars == <<pText, pSlots, pDone, pResult>>

botVars == <<conversation_context, turn, calls, turns, handlers, life>>

vars == <<fNow, fEvents, fDays, fDuration, fService, fDone, fResult,
          pText, pSlots, pDone, pResult,
          conversation_context, turn, calls, turns, handlers, life>>

\* Python's None (a missing slot, link, context or turn)
None == [none |-> TRUE]

\* The values of message.from_user.id that process_message keys contexts by
Users == {"client", "other"}

----------------------------------------------------------------------------
(* datetime arithmetic *)

Max(a, b) == IF a >= b THEN a ELSE b

Min(a, b) == IF a <= b THEN a ELSE b

Minutes(m) == m * 60

Hours(h) == h * 3600

DaysDelta(d) == d * 86400

\* datetime.date(): the calendar date of an instant
DateOf(t) == t \div 86400

HourOf(t) == (t % 86400) \div 3600

MinuteOf(t) == (t % 3600) \div 60

\* t.replace(hour=0, minute=0, second=0, microsecond=0)
Midnight(t) == DaysDelta(DateOf(t))

\* t.replace(minute=m): hour and the sub-minute part are kept
ReplaceMinute(t, m) == t - Minutes(MinuteOf(t)) + Minutes(m)

\* t.replace(hour=h, minute=m): date and the sub-minute part are kept
ReplaceHourMinute(t, h, m) == Midnight(t) + Hours(h) + Minutes(m) + (t % 60)

\* t.strftime("%d.%m.%Y %H:%M"): the date, the hour and the minute; the
\* sub-minute part is not printed
StrfTime(t) == <<DateOf(t), HourOf(t), MinuteOf(t)>>

\* The datetime of a date index and a time of day
At(date, h, m) == DaysDelta(date) + Hours(h) + Minutes(m)

----------------------------------------------------------------------------
(* GoogleCalendarIntegration.get_available_slots *)

WorkStartHour == 9

WorkEndHour == 18

\* now.minute is rounded to a multiple of this many minutes
RoundMinutes == 30

\* current_slot advances by this many minutes
StepMinutes == 30

\* available_slots[:10]
MaxSlots == 10

\* One entry of available_slots
MakeSlot(current_slot, duration_minutes) ==
    [start     |-> current_slot,
     end       |-> current_slot + Minutes(duration_minutes),
     start_str |-> StrfTime(current_slot)]

\* busy_times[day_key]: the (start_dt, end_dt) pairs of the events that carry
\* a dateTime and start on that date, in the order of the events list.
\* aware tells whether the parsed datetimes carry a UTC offset.
BusyTimes(events, day_key) ==
    LET timed == SelectSeq(events, LAMBDA e : e.hasDateTime /\ DateOf(e.start) = day_key)
    IN  [i \in DOMAIN timed |->
            [start |-> timed[i].start, end |-> timed[i].end, aware |-> timed[i].aware]]

\* list.sort(key=lambda x: x[0]): stable, ascending by start
RECURSIVE InsertByStart(_, _)
InsertByStart(sorted, x) ==
    IF sorted = <<>> THEN <<x>>
    ELSE IF sorted[Len(sorted)].start <= x.start THEN Append(sorted, x)
    ELSE Append(InsertByStart(SubSeq(sorted, 1, Len(sorted) - 1), x), sorted[Len(sorted)])

RECURSIVE SortByStart(_)
SortByStart(pairs) ==
    IF pairs = <<>> THEN <<>>
    ELSE InsertByStart(SortByStart(SubSeq(pairs, 1, Len(pairs) - 1)), pairs[Len(pairs)])

\* now and every datetime derived from it come from utcnow() and carry no
\* offset; ordering one of them against a datetime that carries an offset
\* raises TypeError (in the sort when the list is mixed, else in the first
\* comparison of the sweep).
RaisesTypeError(day_busy_times) ==
    \E i \in DOMAIN day_busy_times : day_busy_times[i].aware

\* Variant: today's window starts at the rounded now, also before 09:00
WorkStart_NoMorningClip(current_date, now) ==
    IF DateOf(current_date) = DateOf(now)
    THEN ReplaceMinute(now, (MinuteOf(now) \div RoundMinutes) * RoundMinutes)
    ELSE ReplaceHourMinute(current_date, WorkStartHour, 0)

\* The start of the work window of current_date
WorkStart(current_date, now) ==
    IF DateOf(current_date) = DateOf(now)
    THEN Max(ReplaceHourMinute(current_date, WorkStartHour, 0),
             ReplaceMinute(now, (MinuteOf(now) \div RoundMinutes) * RoundMinutes))
    ELSE ReplaceHourMinute(current_date, WorkStartHour, 0)

WorkEnd(current_date) == ReplaceHourMinute(current_date, WorkEndHour, 0)

\* while current_slot + duration <= limit: append a slot, step current_slot
RECURSIVE SlotsUntil(_, _, _)
SlotsUntil(current_slot, limit, duration_minutes) ==
    IF current_slot + Minutes(duration_minutes) <= limit
    THEN <<MakeSlot(current_slot, duration_minutes)>>
         \o SlotsUntil(current_slot + Minutes(StepMinutes), limit, duration_minutes)
    ELSE <<>>

\* Variant: the cursor is not moved past the busy interval
AfterBusy_NotAdvanced(slot_start, busy_end) == slot_start

\* slot_start after one busy interval
AfterBusy(slot_start, busy_end) == Max(slot_start, busy_end)

\* for busy_start, busy_end in day_busy_times: the slots appended and the
\* final slot_start
RECURSIVE SweepBusy(_, _, _)
SweepBusy(slot_start, day_busy_times, duration_minutes) ==
    IF day_busy_times = <<>>
    THEN [slots |-> <<>>, slot_start |-> slot_start]
    ELSE LET busy == Head(day_busy_times)
             rest == SweepBusy(AfterBusy(slot_start, busy.end),
                               Tail(day_busy_times), duration_minutes)
         IN  [slots      |-> SlotsUntil(slot_start, busy.start, duration_minutes)
                             \o rest.slots,
              slot_start |-> rest.slot_start]

\* One iteration of "while current_date <= end_date"
DaySlots(current_date, now, events, duration_minutes) ==
    LET day_busy_times == SortByStart(BusyTimes(events, DateOf(current_date)))
        swept == SweepBusy(WorkStart(current_date, now), day_busy_times,
                           duration_minutes)
    IN  swept.slots
        \o SlotsUntil(swept.slot_start, WorkEnd(current_date), duration_minutes)

RECURSIVE SlotsFrom(_, _, _, _, _)
SlotsFrom(current_date, end_date, now, events, duration_minutes) ==
    IF current_date <= end_date
    THEN DaySlots(current_date, now, events, duration_minutes)
         \o SlotsFrom(current_date + DaysDelta(1), end_date, now, events,
                      duration_minutes)
    ELSE <<>>

\* The dates the loop visits
VisitedDates(now, days) == DateOf(now) .. DateOf(now + DaysDelta(days))

\* Whether the body of the try block raises before the return
SweepRaises(now, events, days) ==
    \E d \in VisitedDates(now, days) : RaisesTypeError(BusyTimes(events, d))

\* Variant: the list is returned whole
FirstSlots_NoCut(available_slots) == available_slots

\* available_slots[:10]
FirstSlots(available_slots) ==
    SubSeq(available_slots, 1, Min(MaxSlots, Len(available_slots)))

\* The list before truncation (no exception raised)
AllSlots(now, events, days, duration_minutes) ==
    SlotsFrom(Midnight(now), Midnight(now + DaysDelta(days)), now, events,
              duration_minutes)

\* service is FALSE when _initialize_service() returns False or the events
\* listing raises: both paths return []
GetAvailableSlots(now, events, days, duration_minutes, service) ==
    IF ~service THEN <<>>
    ELSE IF SweepRaises(now, events, days) THEN <<>>
    ELSE FirstSlots(AllSlots(now, events, days, duration_minutes))

----------------------------------------------------------------------------
(* Inputs of the slot finder *)

\* Most events of one events listing
MaxEvents == 2

\* Largest value of the argument days
MaxDays == 2

\* utcnow(): before, inside (on and off a half-hour boundary) and after the
\* working hours of date 1
NowChoices ==
    {At(1, 8, 0), At(1, 10, 0), At(1, 10, 20) + 30, At(1, 17, 40), At(1, 19, 0)}

DurationChoices == {30, 45, 60}

\* An event with start.dateTime and end.dateTime; aware: the strings carry a
\* UTC offset (or a Z)
TimedEvent(start, end, aware) ==
    [hasDateTime |-> TRUE, start |-> start, end |-> end, aware |-> aware]

\* An all-day event: start.date and end.date only
AllDayEvent(date) ==
    [hasDateTime |-> FALSE, start |-> DaysDelta(date), end |-> DaysDelta(date + 1),
     aware |-> FALSE]

EventChoices ==
    {TimedEvent(At(0, 22, 0), At(1, 11, 0), TRUE),    \* began the day before
     TimedEvent(At(1, 7, 0), At(1, 8, 30), FALSE),    \* before the working hours
     TimedEvent(At(1, 9, 0), At(1, 10, 0), FALSE),
     TimedEvent(At(1, 9, 0), At(1, 10, 0), TRUE),
     TimedEvent(At(1, 12, 15), At(1, 12, 45), FALSE),
     TimedEvent(At(1, 17, 0), At(2, 10, 0), FALSE),   \* ends on a later day
     TimedEvent(At(1, 20, 0), At(1, 21, 0), FALSE),   \* after the working hours
     TimedEvent(At(2, 9, 0), At(2, 18, 0), FALSE),    \* a whole working day
     TimedEvent(At(2, 13, 0), At(2, 14, 0), FALSE),
     TimedEvent(At(2, 13, 0), At(2, 14, 0), TRUE),
     AllDayEvent(1)}

\* events().list(timeMin=now, timeMax=now+days, singleEvents=True,
\* orderBy='startTime'): distinct events that end after timeMin and start
\* before timeMax, ordered by start
EventLists(now, days) ==
    LET listed == {e \in EventChoices :
                       e.end > now /\ e.start < now + DaysDelta(days)}
    IN  UNION {{s \in [1..n -> listed] :
                    \A i, j \in 1..n : i < j => s[i] # s[j] /\ s[i].start <= s[j].start}
               : n \in 0..MaxEvents}

\* The slot finder before any call of the specification at hand
FinderIdle ==
    /\ fNow = At(1, 8, 0)
    /\ fEvents = <<>>
    /\ fDays = 0
    /\ fDuration = 30
    /\ fService = TRUE
    /\ fDone = FALSE
    /\ fResult = <<>>

\* The selection parser before any call of the specification at hand
ParserIdle ==
    /\ pText = <<>>
    /\ pSlots = <<>>
    /\ pDone = FALSE
    /\ pResult = None

\* Most messages delivered to message_handler in one run
MaxHandlers == 2

Handlers == 1..MaxHandlers

\* An invocation of message_handler that has not begun
IdleFrame ==
    [pc |-> "idle", user_id |-> "nobody", text |-> <<>>, selected_slot |-> None,
     messages |-> <<>>, response |-> None]

\* ControllerBot.__init__ and ConsultantBot.__init__: nothing started, the
\* status label reads "stopped"; stop_landed is the position of _start at
\* which stop() was called
LifeIdle ==
    [pc |-> "not_started", is_running |-> FALSE, connected |-> FALSE,
     has_handler |-> FALSE, running |-> FALSE, status |-> "stopped",
     stop_called |-> FALSE, stop_landed |-> "never"]

\* ConsultantBot.__init__: conversation_context = {}, no message processed
BotIdle ==
    /\ conversation_context = [u \in Users |-> None]
    /\ turn = None
    /\ calls = <<>>
    /\ turns = 0
    /\ handlers = [h \in Handlers |-> IdleFrame]
    /\ life = LifeIdle

SlotInit ==
    /\ ParserIdle
    /\ BotIdle
    /\ fNow \in NowChoices
    /\ fDays \in 0..MaxDays
    /\ fDuration \in DurationChoices
    /\ fService \in BOOLEAN
    /\ fEvents \in EventLists(fNow, fDays)
    /\ fDone = FALSE
    /\ fResult = <<>>

\* One call of get_available_slots(days, duration_minutes)
FindSlots ==
    /\ ~fDone
    /\ fResult' = GetAvailableSlots(fNow, fEvents, fDays, fDuration, fService)
    /\ fDone' = TRUE
    /\ UNCHANGED <<fNow, fEvents, fDays, fDuration, fService>>
    /\ UNCHANGED <<parserVars, botVars>>

SlotNext == FindSlots

SlotSpec == SlotInit /\ [][SlotNext]_vars

----------------------------------------------------------------------------
(* ConsultantBot._check_if_slot_selected *)

\* A text is a sequence of characters: decimal digits, a letter, a sign, the
\* superscript two, and the blank
DecimalChars == {"0", "1", "2"}

\* Characters for which str.isdigit() is true: the decimal digits and the
\* digit characters that are not decimal, such as the superscript two
DigitChars == DecimalChars \cup {"sup2"}

Whitespace == {" "}

\* message_text.strip().split(): the maximal runs of non-blank characters
RECURSIVE SplitFrom(_, _)
SplitFrom(rest, word) ==
    IF rest = <<>>
    THEN IF word = <<>> THEN <<>> ELSE <<word>>
    ELSE IF Head(rest) \in Whitespace
         THEN (IF word = <<>> THEN <<>> ELSE <<word>>) \o SplitFrom(Tail(rest), <<>>)
         ELSE SplitFrom(Tail(rest), Append(word, Head(rest)))

Split(message_text) == SplitFrom(message_text, <<>>)

\* digit.isdigit()
IsDigit(word) == word # <<>> /\ \A i \in DOMAIN word : word[i] \in DigitChars

\* int(digit) raises ValueError on a digit character that is not decimal
IntRaises(word) == \E i \in DOMAIN word : word[i] \notin DecimalChars

DecimalValue(c) == CASE c = "0" -> 0 [] c = "1" -> 1 [] c = "2" -> 2

\* int(digit) for a word of decimal digits
RECURSIVE IntOf(_)
IntOf(word) ==
    IF word = <<>> THEN 0
    ELSE 10 * IntOf(SubSeq(word, 1, Len(word) - 1)) + DecimalValue(word[Len(word)])

\* Variant: the number is used as a 0-based index
SlotIndex_ZeroBased(digit) == IntOf(digit)

\* slot_index = int(digit) - 1
SlotIndex(digit) == IntOf(digit) - 1

\* if 0 <= slot_index < len(available_slots)
IndexInRange(slot_index, available_slots) ==
    0 <= slot_index /\ slot_index < Len(available_slots)

\* for digit in ...: the first token that is a number in range selects; a
\* ValueError ends the scan in the except branch, which returns None
RECURSIVE ScanTokens(_, _)
ScanTokens(tokens, available_slots) ==
    IF tokens = <<>> THEN None
    ELSE LET digit == Head(tokens) IN
         IF IsDigit(digit)
         THEN IF IntRaises(digit) THEN None
              ELSE LET slot_index == SlotIndex(digit) IN
                   IF IndexInRange(slot_index, available_slots)
                   THEN available_slots[slot_index + 1]
                   ELSE ScanTokens(Tail(tokens), available_slots)
         ELSE ScanTokens(Tail(tokens), available_slots)

CheckIfSlotSelected(message_text, available_slots) ==
    ScanTokens(Split(message_text), available_slots)

----------------------------------------------------------------------------
(* ConsultantBot.process_message *)

\* get_available_slots(days=5, duration_minutes=30)
BotDays == 5

BotDuration == 30

\* The context of a new dialogue
NewContext ==
    [messages |-> <<>>, meeting_scheduling |-> FALSE, available_slots |-> <<>>]

\* context["messages"].append({"role": role, "content": content})
AppendMessage(context, role, content) ==
    [context EXCEPT !.messages = Append(@, [role |-> role, content |-> content])]

\* OpenAIIntegration.detect_meeting_intent: whether the model's answer
\* contains the word for yes; an exception is caught and gives False
DetectMeetingIntent(answer) == answer = "yes"

\* OpenAIIntegration.get_response: the model's text; an exception is caught
\* and gives the apology string
GetResponse(messages, outcome) ==
    IF outcome = "content"
    THEN [kind |-> "reply", turns |-> Len(messages)]
    ELSE [kind |-> "reply_apology"]

\* GoogleCalendarIntegration.create_meeting: the uri of the video entry
\* point; None when the service is missing, the insert raises or the event
\* has no video entry point
CreateMeeting(outcome, start_time) ==
    IF outcome = "video" THEN [uri |-> start_time] ELSE None

\* The confirmation: "I created the meeting at {start_str}. Here is the link
\* to join: {meet_link}"
ConfirmationText(selected_slot, meet_link) ==
    [kind |-> "confirmation", start_str |-> selected_slot.start_str,
     link |-> meet_link]

\* slots_text: f"{i + 1}. {slot['start_str']}" for i, slot in enumerate(...)
SlotsText(available_slots) ==
    [i \in DOMAIN available_slots |->
        [number |-> (i - 1) + 1, start_str |-> available_slots[i].start_str]]

OfferText(available_slots) ==
    [kind |-> "offer", lines |-> SlotsText(available_slots)]

NoSlotsText == [kind |-> "no_slots"]

\* The text sent from the except branch
ApologyText == [kind |-> "apology"]

\* Variant: the flag is reset and the offered slots are kept
ResetScheduling_KeepSlots(context) ==
    [context EXCEPT !.meeting_scheduling = FALSE]

\* context["meeting_scheduling"] = False; context["available_slots"] = []
ResetScheduling(context) ==
    [context EXCEPT !.meeting_scheduling = FALSE, !.available_slots = <<>>]

\* Variant: the offer is stored without its first slot
StoreOffer_DropFirst(context, available_slots) ==
    [context EXCEPT !.meeting_scheduling = TRUE,
                    !.available_slots = Tail(available_slots)]

\* context["meeting_scheduling"] = True; context["available_slots"] = slots
StoreOffer(context, available_slots) ==
    [context EXCEPT !.meeting_scheduling = TRUE, !.available_slots = available_slots]

\* app.send_message(user_id, text) in the try block; ok: it did not raise
SendCall(user_id, text, ok) ==
    [op |-> "send_message", where |-> "try", to |-> user_id, text |-> text,
     ok |-> ok]

\* except Exception: the apology is sent; the context keeps what the try
\* block had assigned before the exception.  Whether this last send raises
\* changes no state (message_handler catches it), so its outcome is not
\* recorded.
ExceptBranch(context, user_id, made) ==
    [context |-> context,
     calls   |-> Append(made, [op |-> "send_message", where |-> "except",
                               to |-> user_id, text |-> ApologyText]),
     raised  |-> TRUE]

\* response is sent, then appended to the transcript
SendAndRecord(context, user_id, response, made, env) ==
    LET sent == Append(made, SendCall(user_id, response, env.send)) IN
    IF env.send
    THEN [context |-> AppendMessage(context, "assistant", response),
          calls   |-> sent,
          raised  |-> FALSE]
    ELSE ExceptBranch(context, user_id, sent)

\* Variant: a booking that gave no link is tried a second time
BookingBranch_RetriesBooking(context, user_id, selected_slot, env) ==
    LET meet_link == CreateMeeting(env.booking, selected_slot.start)
        response  == ConfirmationText(selected_slot, meet_link)
        booking   == [op |-> "create_meeting", start |-> selected_slot.start,
                      end |-> selected_slot.end, result |-> meet_link]
        made      == (IF meet_link = None THEN <<booking, booking>> ELSE <<booking>>)
                     \o <<SendCall(user_id, response, env.send)>>
    IN  IF env.send
        THEN [context |-> AppendMessage(ResetScheduling(context), "assistant", response),
              calls   |-> made,
              raised  |-> FALSE]
        ELSE ExceptBranch(context, user_id, made)

\* if selected_slot: create the meeting, send the link, reset, record, return
BookingBranch(context, user_id, selected_slot, env) ==
    LET meet_link == CreateMeeting(env.booking, selected_slot.start)
        response  == ConfirmationText(selected_slot, meet_link)
        made      == <<[op |-> "create_meeting", start |-> selected_slot.start,
                        end |-> selected_slot.end, result |-> meet_link],
                       SendCall(user_id, response, env.send)>>
    IN  IF env.send
        THEN [context |-> AppendMessage(ResetScheduling(context), "assistant", response),
              calls   |-> made,
              raised  |-> FALSE]
        ELSE ExceptBranch(context, user_id, made)

\* Variant: the offer is made whenever the intent is detected
OffersMeeting_AlsoWhileScheduling(meeting_intent, context) == meeting_intent

\* if meeting_intent and not context.get("meeting_scheduling")
OffersMeeting(meeting_intent, context) ==
    meeting_intent /\ ~context.meeting_scheduling

\* The rest of the try block: intent detection, then an offer, the
\* no-availability text or a generated reply
ReplyBranch(context, user_id, text, env) ==
    LET meeting_intent == DetectMeetingIntent(env.intent)
        asked == <<[op |-> "detect_meeting_intent", text |-> text,
                    result |-> meeting_intent]>>
    IN  IF OffersMeeting(meeting_intent, context)
        THEN LET available_slots ==
                     GetAvailableSlots(env.calendar.now, env.calendar.events,
                                       BotDays, BotDuration, env.calendar.service)
                 looked == Append(asked, [op |-> "get_available_slots",
                                          result |-> available_slots])
             IN  IF available_slots # <<>>
                 THEN SendAndRecord(StoreOffer(context, available_slots), user_id,
                                    OfferText(available_slots), looked, env)
                 ELSE SendAndRecord(context, user_id, NoSlotsText, looked, env)
        ELSE LET response == GetResponse(context.messages, env.reply)
                 answered == Append(asked, [op |-> "get_response",
                                            result |-> response])
             IN  SendAndRecord(context, user_id, response, answered, env)

\* selected_slot of line 145; None when the context is not scheduling
SelectedSlot(context, text) ==
    IF context.meeting_scheduling
    THEN CheckIfSlotSelected(text, context.available_slots)
    ELSE None

\* The context process_message works on, the user message appended
EnterTurn(before, text) ==
    AppendMessage(IF before = None THEN NewContext ELSE before, "user", text)

\* process_message(message): the context it leaves, the collaborator calls
\* it makes and whether the except branch ran
ProcessMessageResult(before, user_id, text, env) ==
    LET context == EnterTurn(before, text)
        selected_slot == SelectedSlot(context, text)
    IN  IF selected_slot # None
        THEN BookingBranch(context, user_id, selected_slot, env)
        ELSE ReplyBranch(context, user_id, text, env)

----------------------------------------------------------------------------
(* Inputs of the selection parser *)

\* Longest message text, in characters
MaxTextLen == 4

\* Most slots on offer
MaxOffered == 3

TextChars == {"0", "1", "2", "a", "sup2", " "}

TextChoices == UNION {[1..n -> TextChars] : n \in 0..MaxTextLen}

\* The first k half-hour slots of date 1
OfferedSlots(k) == SubSeq(AllSlots(At(1, 8, 0), <<>>, 0, 30), 1, k)

SelectInit ==
    /\ FinderIdle
    /\ BotIdle
    /\ pText \in TextChoices
    /\ pSlots \in {OfferedSlots(k) : k \in 0..MaxOffered}
    /\ pDone = FALSE
    /\ pResult = None

\* One call of _check_if_slot_selected(message_text, available_slots)
CheckSelection ==
    /\ ~pDone
    /\ pResult' = CheckIfSlotSelected(pText, pSlots)
    /\ pDone' = TRUE
    /\ UNCHANGED <<pText, pSlots, finderVars, botVars>>

SelectNext == CheckSelection

SelectSpec == SelectInit /\ [][SelectNext]_vars

----------------------------------------------------------------------------
(* The conversation state machine *)

\* Messages processed in one run
MaxTurns == 2

\* "a": no number; "0 2": a number out of range, then a number in range
Texts == {<<"a">>, <<"0", " ", "2">>}

\* A collaborator that the turn does not call
NotCalled == "not_called"

IntentAnswers == {"yes", "no", "raise"}

ReplyOutcomes == {"content", "raise"}

\* video: the event is inserted and has a video entry point; no_video: it is
\* inserted without one; raise: the insert raises
BookingOutcomes == {"video", "no_video", "raise"}

\* Calendars the slot lookup may meet: free, two free half hours left in the
\* whole horizon, and a service that cannot be initialised
FreeCalendar == [now |-> At(1, 8, 0), events |-> <<>>, service |-> TRUE]

NearlyFullCalendar ==
    [now     |-> At(1, 8, 0),
     events  |-> [d \in 1..(BotDays + 1) |->
                     TimedEvent(At(d, 9, 0),
                                IF d = 1 THEN At(d, 17, 0) ELSE At(d, 18, 0), FALSE)],
     service |-> TRUE]

NoServiceCalendar == [now |-> At(1, 8, 0), events |-> <<>>, service |-> FALSE]

BotCalendars == {FreeCalendar, NearlyFullCalendar, NoServiceCalendar}

\* What the collaborators of one turn answer when the slot lookup meets one
\* of calendars; a collaborator the turn does not reach has no answer
EnvsAt(before, text, calendars) ==
    LET context == EnterTurn(before, text)
        offering == {i \in IntentAnswers :
                         OffersMeeting(DetectMeetingIntent(i), context)}
    IN  IF SelectedSlot(context, text) # None
        THEN {[intent |-> NotCalled, calendar |-> None, booking |-> b,
               reply |-> NotCalled, send |-> s] :
                  b \in BookingOutcomes, s \in BOOLEAN}
        ELSE {[intent |-> i, calendar |-> c, booking |-> NotCalled,
               reply |-> NotCalled, send |-> s] :
                  i \in offering, c \in calendars, s \in BOOLEAN}
             \cup
             {[intent |-> i, calendar |-> None, booking |-> NotCalled,
               reply |-> r, send |-> s] :
                  i \in IntentAnswers \ offering,
                  r \in ReplyOutcomes, s \in BOOLEAN}

Envs(before, text) == EnvsAt(before, text, BotCalendars)

\* Variant: one context is stored for every user
StoreContext_Shared(contexts, user_id, context) ==
    [u \in DOMAIN contexts |-> context]

\* self.conversation_context[user_id]: the entry of user_id is the only one
\* process_message assigns or mutates
StoreContext(contexts, user_id, context) ==
    [contexts EXCEPT ![user_id] = context]

Init ==
    /\ FinderIdle
    /\ ParserIdle
    /\ BotIdle

\* message_handler passes one text message to process_message
ProcessMessage ==
    \E user_id \in Users, text \in Texts :
        \E env \in Envs(conversation_context[user_id], text) :
            LET before == conversation_context[user_id]
                done == ProcessMessageResult(before, user_id, text, env)
            IN  /\ turns < MaxTurns
                /\ conversation_context' =
                       StoreContext(conversation_context, user_id, done.context)
                /\ turn' = [user_id |-> user_id, text |-> text, before |-> before,
                            env |-> env, raised |-> done.raised]
                /\ calls' = done.calls
                /\ turns' = turns + 1
                /\ UNCHANGED <<finderVars, parserVars, handlers, life>>

Next == ProcessMessage

Spec == Init /\ [][Next]_vars

----------------------------------------------------------------------------
(* The slot lookup of a turn, served by any calendar of the slot finder *)

LookupInit ==
    /\ ParserIdle
    /\ BotIdle
    /\ fNow \in NowChoices
    /\ fDays \in (0..MaxDays) \cup {BotDays}
    /\ fDuration \in DurationChoices
    /\ fService \in BOOLEAN
    /\ fEvents \in EventLists(fNow, fDays)
    /\ fDone = FALSE
    /\ fResult = <<>>

\* The first message of a run is processed; if the turn looks up slots, the
\* call is get_available_slots(days=5, duration_minutes=30) on the calendar
\* at hand
LookupTurn ==
    \E user_id \in Users, text \in Texts :
        LET before == conversation_context[user_id]
            calendar == [now |-> fNow, events |-> fEvents, service |-> fService]
        IN  \E env \in EnvsAt(before, text, {calendar}) :
                LET done == ProcessMessageResult(before, user_id, text, env)
                    looked == SelectSeq(done.calls,
                                        LAMBDA c : c.op = "get_available_slots")
                IN  /\ turn = None
                    /\ ~fDone
                    /\ fDays = BotDays
                    /\ fDuration = BotDuration
                    /\ conversation_context' =
                           StoreContext(conversation_context, user_id, done.context)
                    /\ turn' = [user_id |-> user_id, text |-> text,
                                before |-> before, env |-> env,
                                raised |-> done.raised]
                    /\ calls' = done.calls
                    /\ turns' = turns + 1
                    /\ fDone' = (looked # <<>>)
                    /\ fResult' = IF looked # <<>> THEN looked[1].result ELSE fResult
                    /\ UNCHANGED <<fNow, fEvents, fDays, fDuration, fService>>
                    /\ UNCHANGED <<parserVars, handlers, life>>

LookupNext == FindSlots \/ LookupTurn

LookupSpec == LookupInit /\ [][LookupNext]_vars

----------------------------------------------------------------------------
(* message_handler and process_message step by step: an invocation runs from
   one await to the next without interruption and is suspended at the await;
   while it is suspended the event loop may run another invocation *)

\* The context object of a user: every invocation for that user holds a
\* reference to the same dict
SharedContext(user_id) == conversation_context[user_id]

Suspend(h, pc, changes) ==
    handlers' = [handlers EXCEPT ![h] = [changes EXCEPT !.pc = pc]]

SetContext(user_id, context) ==
    conversation_context' = StoreContext(conversation_context, user_id, context)

\* message_handler begins for a text message and awaits
\* _get_contact_by_phone
Receive(h) ==
    \E user_id \in Users, text \in Texts :
        /\ handlers[h].pc = "idle"
        /\ \A g \in Handlers : g < h => handlers[g].pc # "idle"
        /\ Suspend(h, "get_contacts",
                   [handlers[h] EXCEPT !.user_id = user_id, !.text = text])
        /\ turns' = turns + 1
        /\ UNCHANGED <<conversation_context, turn, calls>>

\* process_message from its first line to its first await: the context is
\* created if absent, the user message appended, the selection parsed
Enter(h) ==
    LET frame == handlers[h]
        context == EnterTurn(SharedContext(frame.user_id), frame.text)
        selected_slot == SelectedSlot(context, frame.text)
    IN  /\ frame.pc = "get_contacts"
        /\ SetContext(frame.user_id, context)
        /\ Suspend(h, IF selected_slot # None THEN "create_meeting"
                      ELSE "detect_meeting_intent",
                   [frame EXCEPT !.selected_slot = selected_slot])
        /\ UNCHANGED <<turn, calls, turns>>

\* create_meeting returns; the confirmation is built and its send awaited
Booked(h) ==
    \E booking \in BookingOutcomes :
        LET frame == handlers[h]
            meet_link == CreateMeeting(booking, frame.selected_slot.start)
        IN  /\ frame.pc = "create_meeting"
            /\ calls' = Append(calls, [op |-> "create_meeting",
                                       start |-> frame.selected_slot.start,
                                       end |-> frame.selected_slot.end,
                                       result |-> meet_link])
            /\ Suspend(h, "send_confirmation",
                       [frame EXCEPT !.response =
                            ConfirmationText(frame.selected_slot, meet_link)])
            /\ UNCHANGED <<conversation_context, turn, turns>>

\* send_message of the confirmation returns or raises
ConfirmationSent(h) ==
    \E ok \in BOOLEAN :
        LET frame == handlers[h]
            context == SharedContext(frame.user_id)
        IN  /\ frame.pc = "send_confirmation"
            /\ calls' = Append(calls, SendCall(frame.user_id, frame.response, ok))
            /\ IF ok
               THEN /\ SetContext(frame.user_id,
                                  AppendMessage(ResetScheduling(context),
                                                "assistant", frame.response))
                    /\ Suspend(h, "done", frame)
               ELSE /\ UNCHANGED conversation_context
                    /\ Suspend(h, "send_apology", frame)
            /\ UNCHANGED <<turn, turns>>

\* detect_meeting_intent returns; line 176 reads the context as it is now
IntentDetected(h) ==
    \E answer \in IntentAnswers :
        LET frame == handlers[h]
            context == SharedContext(frame.user_id)
            meeting_intent == DetectMeetingIntent(answer)
        IN  /\ frame.pc = "detect_meeting_intent"
            /\ calls' = Append(calls, [op |-> "detect_meeting_intent",
                                       text |-> frame.text,
                                       result |-> meeting_intent])
            /\ IF OffersMeeting(meeting_intent, context)
               THEN Suspend(h, "get_available_slots", frame)
               ELSE Suspend(h, "get_response",
                            [frame EXCEPT !.messages = context.messages])
            /\ UNCHANGED <<conversation_context, turn, turns>>

\* get_available_slots returns; the offer is stored if there is one
SlotsFound(h) ==
    \E calendar \in BotCalendars :
        LET frame == handlers[h]
            context == SharedContext(frame.user_id)
            available_slots ==
                GetAvailableSlots(calendar.now, calendar.events, BotDays,
                                  BotDuration, calendar.service)
        IN  /\ frame.pc = "get_available_slots"
            /\ calls' = Append(calls, [op |-> "get_available_slots",
                                       result |-> available_slots])
            /\ IF available_slots # <<>>
               THEN /\ SetContext(frame.user_id, StoreOffer(context, available_slots))
                    /\ Suspend(h, "send_reply",
                               [frame EXCEPT !.response = OfferText(available_slots)])
               ELSE /\ UNCHANGED conversation_context
                    /\ Suspend(h, "send_reply",
                               [frame EXCEPT !.response = NoSlotsText])
            /\ UNCHANGED <<turn, turns>>

\* get_response returns
ReplyGenerated(h) ==
    \E outcome \in ReplyOutcomes :
        LET frame == handlers[h]
            response == GetResponse(frame.messages, outcome)
        IN  /\ frame.pc = "get_response"
            /\ calls' = Append(calls, [op |-> "get_response", result |-> response])
            /\ Suspend(h, "send_reply", [frame EXCEPT !.response = response])
            /\ UNCHANGED <<conversation_context, turn, turns>>

\* send_message of the reply returns or raises
ReplySent(h) ==
    \E ok \in BOOLEAN :
        LET frame == handlers[h]
            context == SharedContext(frame.user_id)
        IN  /\ frame.pc = "send_reply"
            /\ calls' = Append(calls, SendCall(frame.user_id, frame.response, ok))
            /\ IF ok
               THEN /\ SetContext(frame.user_id,
                                  AppendMessage(context, "assistant", frame.response))
                    /\ Suspend(h, "done", frame)
               ELSE /\ UNCHANGED conversation_context
                    /\ Suspend(h, "send_apology", frame)
            /\ UNCHANGED <<turn, turns>>

\* send_message of the apology returns or raises; message_handler ends
ApologySent(h) ==
    LET frame == handlers[h]
    IN  /\ frame.pc = "send_apology"
        /\ calls' = Append(calls, [op |-> "send_message", where |-> "except",
                                   to |-> frame.user_id, text |-> ApologyText])
        /\ Suspend(h, "done", frame)
        /\ UNCHANGED <<conversation_context, turn, turns>>

StepInit ==
    /\ FinderIdle
    /\ ParserIdle
    /\ BotIdle

StepNext ==
    \E h \in Handlers :
        \/ (Receive(h) /\ UNCHANGED <<finderVars, parserVars, life>>)
        \/ (Enter(h) /\ UNCHANGED <<finderVars, parserVars, life>>)
        \/ (Booked(h) /\ UNCHANGED <<finderVars, parserVars, life>>)
        \/ (ConfirmationSent(h) /\ UNCHANGED <<finderVars, parserVars, life>>)
        \/ (IntentDetected(h) /\ UNCHANGED <<finderVars, parserVars, life>>)
        \/ (SlotsFound(h) /\ UNCHANGED <<finderVars, parserVars, life>>)
        \/ (ReplyGenerated(h) /\ UNCHANGED <<finderVars, parserVars, life>>)
        \/ (ReplySent(h) /\ UNCHANGED <<finderVars, parserVars, life>>)
        \/ (ApologySent(h) /\ UNCHANGED <<finderVars, parserVars, life>>)

StepSpec == StepInit /\ [][StepNext]_vars

\* The session of the client after a first turn in which the client asked
\* for a meeting and the offer of the free calendar was sent
OfferedContext ==
    ProcessMessageResult(None, "client", <<"a">>,
                         [intent |-> "yes", calendar |-> FreeCalendar,
                          booking |-> NotCalled, reply |-> NotCalled,
                          send |-> TRUE]).context

\* The messages that follow that turn, handled step by step
OfferedInit ==
    /\ FinderIdle
    /\ ParserIdle
    /\ conversation_context =
           [u \in Users |-> IF u = "client" THEN OfferedContext ELSE None]
    /\ turn = None
    /\ calls = <<>>
    /\ turns = 0
    /\ handlers = [h \in Handlers |-> IdleFrame]
    /\ life = LifeIdle

OfferedSpec == OfferedInit /\ [][StepNext]_vars

----------------------------------------------------------------------------
(* The conversation state machine with the wall clock: fNow is the instant
   datetime.utcnow() would return; process_message reads it only through
   get_available_slots *)

\* Instants at which messages arrive: before the working hours of date 1,
\* inside them, and the next morning
ClockChoices == {At(1, 8, 0), At(1, 9, 45), At(2, 8, 0)}

ClockInit ==
    /\ ParserIdle
    /\ BotIdle
    /\ fNow \in ClockChoices
    /\ fEvents = <<>>
    /\ fDays = BotDays
    /\ fDuration = BotDuration
    /\ fService = TRUE
    /\ fDone = FALSE
    /\ fResult = <<>>

\* Time passes between two messages
TimePasses ==
    /\ \E t \in ClockChoices : t > fNow /\ fNow' = t
    /\ UNCHANGED <<fEvents, fDays, fDuration, fService, fDone, fResult>>
    /\ UNCHANGED <<parserVars, botVars>>

\* process_message at the instant fNow; turn.at records that instant
TimedTurn ==
    \E user_id \in Users, text \in Texts :
        LET before == conversation_context[user_id]
            calendar == [now |-> fNow, events |-> fEvents, service |-> fService]
        IN  \E env \in EnvsAt(before, text, {calendar}) :
                LET done == ProcessMessageResult(before, user_id, text, env)
                IN  /\ turns < MaxTurns
                    /\ conversation_context' =
                           StoreContext(conversation_context, user_id, done.context)
                    /\ turn' = [user_id |-> user_id, text |-> text,
                                before |-> before, env |-> env,
                                raised |-> done.raised, at |-> fNow]
                    /\ calls' = done.calls
                    /\ turns' = turns + 1
                    /\ UNCHANGED <<finderVars, parserVars, handlers, life>>

ClockNext == TimePasses \/ TimedTurn

ClockSpec == ClockInit /\ [][ClockNext]_vars

----------------------------------------------------------------------------
(* Starting and stopping the bot: ControllerBot._start_bot and _stop_bot run
   on the interface thread, ConsultantBot.run on a thread of its own; a step
   of _start runs from one await to the next *)

\* The start button: the bot is created, its thread started, running set
StartBot ==
    /\ ~life.running
    /\ life.pc = "not_started"
    /\ life' = [life EXCEPT !.pc = "app_start", !.running = TRUE,
                            !.status = "started"]
    /\ UNCHANGED <<conversation_context, turn, calls, turns, handlers>>

\* The stop button: consultant_bot.stop() sets is_running to False, then the
\* controller clears running and shows "stopped"
StopBot ==
    /\ life.running
    /\ life' = [life EXCEPT !.is_running = FALSE, !.running = FALSE,
                            !.status = "stopped", !.stop_called = TRUE,
                            !.stop_landed = life.pc]
    /\ UNCHANGED <<conversation_context, turn, calls, turns, handlers>>

\* await self.app.start() returns or raises; the handler is registered and
\* send_initial_message awaited
AppStarted ==
    /\ life.pc = "app_start"
    /\ \E ok \in BOOLEAN :
           life' = IF ok
                   THEN [life EXCEPT !.pc = "initial_message", !.connected = TRUE,
                                     !.has_handler = TRUE]
                   ELSE [life EXCEPT !.pc = "exited"]
    /\ UNCHANGED <<conversation_context, turn, calls, turns, handlers>>

\* send_initial_message returns: on failure the client is stopped and _start
\* returns; on success is_running is set to True and the loop entered
InitialMessageSent ==
    /\ life.pc = "initial_message"
    /\ \E success \in BOOLEAN :
           life' = IF success
                   THEN [life EXCEPT !.pc = "loop", !.is_running = TRUE]
                   ELSE [life EXCEPT !.pc = "exited", !.connected = FALSE]
    /\ UNCHANGED <<conversation_context, turn, calls, turns, handlers>>

\* while self.is_running: await asyncio.sleep(1) finds is_running False;
\* the client is stopped and _start returns.  An iteration that finds it
\* True changes nothing.
LoopExit ==
    /\ life.pc = "loop"
    /\ ~life.is_running
    /\ life' = [life EXCEPT !.pc = "exited", !.connected = FALSE]
    /\ UNCHANGED <<conversation_context, turn, calls, turns, handlers>>

\* A message of the client is processed while the client is connected and
\* the handler registered
HandleMessage ==
    /\ life.connected
    /\ life.has_handler
    /\ ProcessMessage

\* A step of the thread that runs ConsultantBot.run
BotThread ==
    /\ AppStarted \/ InitialMessageSent \/ LoopExit
    /\ UNCHANGED <<finderVars, parserVars>>

LifeNext ==
    \/ (StartBot /\ UNCHANGED <<finderVars, parserVars>>)
    \/ (StopBot /\ UNCHANGED <<finderVars, parserVars>>)
    \/ (AppStarted /\ UNCHANGED <<finderVars, parserVars>>)
    \/ (InitialMessageSent /\ UNCHANGED <<finderVars, parserVars>>)
    \/ (LoopExit /\ UNCHANGED <<finderVars, parserVars>>)
    \/ HandleMessage

\* The thread of the bot keeps being scheduled; nobody has to press a button
LifeSpec == Init /\ [][LifeNext]_vars /\ WF_vars(BotThread)

----------------------------------------------------------------------------
(* Properties of the conversation state machine (specification Spec) *)

\* The context of a user, an absent one read as a new dialogue
ContextOf(user_id) ==
    IF conversation_context[user_id] = None THEN NewContext
    ELSE conversation_context[user_id]

\* The context the last turn started from
TurnBefore == IF turn.before = None THEN NewContext ELSE turn.before

\* The context the last turn left
TurnAfter == ContextOf(turn.user_id)

\* The calls of the last turn to one collaborator
CallsTo(op) == SelectSeq(calls, LAMBDA c : c.op = op)

\* The texts the last turn sent from its try block (the replies)
Replies == SelectSeq(CallsTo("send_message"), LAMBDA c : c.where = "try")

\* C1: at the end of every turn, on the normal and on the exception path,
\* available_slots is non-empty exactly when meeting_scheduling is true.
C1_SlotsIffScheduling ==
    \A u \in Users :
        conversation_context[u] # None =>
            ((conversation_context[u].available_slots # <<>>)
                <=> conversation_context[u].meeting_scheduling)

\* C1 witness: a turn stored an offer of several slots and then left through
\* the except branch.
C1_Witness ==
    /\ turn # None
    /\ turn.raised
    /\ ~TurnBefore.meeting_scheduling
    /\ TurnAfter.meeting_scheduling
    /\ Len(TurnAfter.available_slots) >= 2

\* C2: from Idle, an intent-positive message for which the slot finder
\* returns k >= 1 slots ends the turn awaiting a selection, with the offered
\* slots equal to the slot finder's output, and the reply numbers them 1..k
\* in that order.
C2_OfferMatchesFinder ==
    (/\ turn # None
     /\ ~TurnBefore.meeting_scheduling
     /\ turn.env.intent = "yes"
     /\ CallsTo("get_available_slots") # <<>>
     /\ CallsTo("get_available_slots")[1].result # <<>>)
    => LET found == CallsTo("get_available_slots")[1].result
           reply == Replies[1].text
       IN  /\ TurnAfter.meeting_scheduling
           /\ TurnAfter.available_slots = found
           /\ Len(Replies) = 1
           /\ reply.kind = "offer"
           /\ Len(reply.lines) = Len(found)
           /\ \A i \in 1..Len(found) :
                  /\ reply.lines[i].number = i
                  /\ reply.lines[i].start_str = StrfTime(found[i].start)

\* C2 witness: from Idle an intent-positive message met a calendar with two
\* free slots, and the numbered offer was sent.
C2_Witness ==
    /\ turn # None
    /\ ~TurnBefore.meeting_scheduling
    /\ turn.env.intent = "yes"
    /\ Len(TurnAfter.available_slots) = 2
    /\ Replies # <<>>
    /\ Replies[1].text.kind = "offer"
    /\ Replies[1].ok

\* A token that is a decimal integer, and its value
IsInteger(token) ==
    token # <<>> /\ \A i \in DOMAIN token : token[i] \in DecimalChars

\* The positions of the tokens that are integers n with 1 <= n <= k
ValidPositions(tokens, k) ==
    {i \in DOMAIN tokens :
        IsInteger(tokens[i]) /\ 1 <= IntOf(tokens[i]) /\ IntOf(tokens[i]) <= k}

\* The number the first valid token names; 0 when no token is valid
FirstValidNumber(tokens, k) ==
    IF ValidPositions(tokens, k) = {} THEN 0
    ELSE IntOf(tokens[CHOOSE i \in ValidPositions(tokens, k) :
                          \A j \in ValidPositions(tokens, k) : i <= j])

\* C3: from AwaitingSelection with k offered slots, a message whose first
\* valid token is n invokes create_meeting with the start and end of
\* offeredSlots[n-1], and when booking succeeds the turn ends Idle with no
\* offered slots.
C3_SelectionBooksAndResets ==
    (/\ turn # None
     /\ TurnBefore.meeting_scheduling
     /\ FirstValidNumber(Split(turn.text), Len(TurnBefore.available_slots)) > 0)
    => LET n == FirstValidNumber(Split(turn.text), Len(TurnBefore.available_slots))
           chosen == TurnBefore.available_slots[n]
           booked == CallsTo("create_meeting")
       IN  /\ Len(booked) = 1
           /\ booked[1].start = chosen.start
           /\ booked[1].end = chosen.end
           /\ (booked[1].result # None =>
                  /\ ~TurnAfter.meeting_scheduling
                  /\ TurnAfter.available_slots = <<>>)

\* C5: when create_meeting fails after a valid selection (no join link), the
\* counterpart is sent an apology and no confirmation.
C5_NoConfirmationWithoutLink ==
    (/\ turn # None
     /\ CallsTo("create_meeting") # <<>>
     /\ CallsTo("create_meeting")[1].result = None)
    => /\ \A i \in DOMAIN CallsTo("send_message") :
              CallsTo("send_message")[i].text.kind # "confirmation"
       /\ \E i \in DOMAIN CallsTo("send_message") :
              CallsTo("send_message")[i].text.kind \in {"apology", "reply_apology"}

\* A collaborator call of the last turn failed: the classifier, the slot
\* lookup, the booking or the reply generation
CollaboratorFailed ==
    \/ turn.env.intent = "raise"
    \/ turn.env.reply = "raise"
    \/ turn.env.booking \in {"raise", "no_video"}
    \/ (turn.env.calendar # None /\ ~turn.env.calendar.service)

\* C6: a turn in which a collaborator call fails ends with the
\* meeting_scheduling and available_slots it started with.
C6_FailureKeepsState ==
    (turn # None /\ CollaboratorFailed)
    => /\ TurnAfter.meeting_scheduling = TurnBefore.meeting_scheduling
       /\ TurnAfter.available_slots = TurnBefore.available_slots

----------------------------------------------------------------------------
(* Properties of the selection parser (specification SelectSpec) *)

\* C4: parsing returns offeredSlots[n-1] for the first token that is an
\* integer n with 1 <= n <= k, skips every other token, and selects nothing
\* when no token qualifies.
C4_FirstValidTokenSelects ==
    pDone =>
        LET n == FirstValidNumber(Split(pText), Len(pSlots))
        IN  pResult = IF n = 0 THEN None ELSE pSlots[n]

----------------------------------------------------------------------------
(* Properties of the slot finder (specification SlotSpec) *)

\* The busy map built from the events is empty
BusyMapEmpty == \A i \in DOMAIN fEvents : ~fEvents[i].hasDateTime

\* The busy intervals of the call
BusyIntervals == {fEvents[i] : i \in {j \in DOMAIN fEvents : fEvents[j].hasDateTime}}

\* Two intervals [start, end) share an instant
Intersect(a, b) == a.start < b.end /\ b.start < a.end

\* now rounded up to the next half-hour boundary
RoundedUp(now) ==
    LET past == now % Minutes(StepMinutes)
    IN  IF past = 0 THEN now ELSE now - past + Minutes(StepMinutes)

\* The slots returned for the date of now
TodaySlots == SelectSeq(fResult, LAMBDA s : DateOf(s.start) = DateOf(fNow))

\* C7: with an empty busy map no slot of now's date starts before now:
\* today's window starts at max(09:00, now rounded up to the half hour).
C7_NoSlotBeforeNow ==
    (fDone /\ BusyMapEmpty)
    => /\ \A i \in DOMAIN TodaySlots : TodaySlots[i].start >= fNow
       /\ (TodaySlots # <<>> =>
              TodaySlots[1].start = Max(At(DateOf(fNow), WorkStartHour, 0),
                                        RoundedUp(fNow)))

\* A slot lies inside the working hours of the day it starts on
InsideWorkingHours(slot) ==
    /\ slot.start >= At(DateOf(slot.start), WorkStartHour, 0)
    /\ slot.end <= At(DateOf(slot.start), WorkEndHour, 0)

\* C8: with an empty busy map every slot starts at or after 09:00 and ends at
\* or before 18:00 of its day.
C8_FreeDaySlotsInWorkingHours ==
    (fDone /\ BusyMapEmpty)
    => \A i \in DOMAIN fResult : InsideWorkingHours(fResult[i])

\* C8 witness: a call with an empty busy map returned a slot that ends at
\* 18:00 and a slot that starts at 09:00.
C8_Witness ==
    /\ fDone
    /\ BusyMapEmpty
    /\ \E i \in DOMAIN fResult :
           fResult[i].end = At(DateOf(fResult[i].start), WorkEndHour, 0)
    /\ \E i \in DOMAIN fResult :
           fResult[i].start = At(DateOf(fResult[i].start), WorkStartHour, 0)

\* C9: for every busy map every slot lies inside the working hours of its
\* day.
C9_SlotsInWorkingHours ==
    fDone => \A i \in DOMAIN fResult : InsideWorkingHours(fResult[i])

\* C10: when the busy intervals do not overlap one another, no slot
\* intersects a busy interval.
C10_SlotsAvoidBusy ==
    (/\ fDone
     /\ \A a, b \in BusyIntervals : a # b => ~Intersect(a, b))
    => \A i \in DOMAIN fResult : \A b \in BusyIntervals : ~Intersect(fResult[i], b)

\* C11: for every busy map and every now the returned slots are in strictly
\* increasing order of start: non-decreasing, and no start occurs twice.
C11_StartsStrictlyIncrease ==
    fDone => \A i, j \in DOMAIN fResult : i < j => fResult[i].start < fResult[j].start

\* C11 witness: a call returned slots before and after a busy interval of a
\* visited date, and slots of two dates.
C11_Witness ==
    /\ fDone
    /\ \E b \in BusyIntervals : \E i, j \in DOMAIN fResult :
           /\ DateOf(b.start) = DateOf(fResult[i].start)
           /\ fResult[i].end <= b.start
           /\ fResult[j].start >= b.end
    /\ \E i, j \in DOMAIN fResult : DateOf(fResult[i].start) # DateOf(fResult[j].start)

----------------------------------------------------------------------------
(* Properties of the slot lookup (specification LookupSpec) *)

\* C12: the slot finder returns at most 10 slots, for every horizon, duration
\* and busy map; they are the first 10 of the slots the sweep produces, each
\* earlier than every slot left out; and the offer a session holds after a
\* lookup is that result, so offered slots never number more than 10.
C12_AtMostTenEarliest ==
    /\ fDone => Len(fResult) <= 10
    /\ (fDone /\ fService /\ ~SweepRaises(fNow, fEvents, fDays)) =>
           LET produced == AllSlots(fNow, fEvents, fDays, fDuration) IN
               /\ Len(fResult) = Min(10, Len(produced))
               /\ \A i \in DOMAIN fResult : fResult[i] = produced[i]
               /\ \A i \in DOMAIN fResult :
                      \A j \in (Len(fResult) + 1)..Len(produced) :
                          fResult[i].start < produced[j].start
    /\ \A u \in Users : Len(ContextOf(u).available_slots) <= 10
    /\ (turn # None /\ CallsTo("get_available_slots") # <<>>) =>
           fDone /\ TurnAfter.available_slots = fResult

\* C12 witness: a turn looked up slots on a calendar whose sweep produces
\* more than 10, and the session holds exactly 10.
C12_Witness ==
    /\ fDone
    /\ turn # None
    /\ CallsTo("get_available_slots") # <<>>
    /\ fEvents # <<>>
    /\ Len(AllSlots(fNow, fEvents, fDays, fDuration)) > 10
    /\ Len(TurnAfter.available_slots) = 10

----------------------------------------------------------------------------
(* Further properties of the slot finder (specification SlotSpec) *)

\* C13: when now is later than 18:00 of its date, no returned slot lies on
\* that date, for every busy map; and when the horizon reaches the next date
\* and nothing is busy there, the slots resume at 09:00 of the next date.
C13_NoSlotsAfterWorkEnd ==
    (fDone /\ fNow > WorkEnd(Midnight(fNow))) =>
        /\ \A i \in DOMAIN fResult : DateOf(fResult[i].start) # DateOf(fNow)
        /\ ( /\ fService
             /\ fDays >= 1
             /\ ~SweepRaises(fNow, fEvents, fDays)
             /\ \A b \in BusyIntervals : DateOf(b.start) # DateOf(fNow) + 1 )
           => /\ fResult # <<>>
              /\ fResult[1].start = At(DateOf(fNow) + 1, 9, 0)

\* The call of the example: now = 08:00 of date 1, duration 30, and one busy
\* interval 09:00-10:00 of date 1
NineToTenBusy ==
    /\ fService
    /\ fNow = At(1, 8, 0)
    /\ fDuration = 30
    /\ Len(fEvents) = 1
    /\ fEvents[1].hasDateTime
    /\ fEvents[1].start = At(1, 9, 0)
    /\ fEvents[1].end = At(1, 10, 0)

\* C14: with the single busy interval 09:00-10:00 today and now = 08:00, the
\* slots of today that fit a working day ending at 10:30 are exactly
\* [10:00-10:30]: the cursor resumes at the end of the busy interval and a
\* slot may begin at that instant.  (work_end is fixed at 18:00 in the code,
\* so the slots that end after 10:30 are left out of the comparison.)
C14_ResumesAtBusyEnd ==
    (fDone /\ NineToTenBusy) =>
        LET early == SelectSeq(TodaySlots, LAMBDA s : s.end <= At(1, 10, 30))
        IN  /\ Len(early) = 1
            /\ early[1].start = At(1, 10, 0)
            /\ early[1].end = At(1, 10, 30)

----------------------------------------------------------------------------
(* Further properties of the conversation state machine (specification Spec) *)

\* C15: create_meeting is invoked only in a turn that started in
\* AwaitingSelection (never from Idle), and only with the start and end of a
\* slot of the offer the session held, at a 1-based index that a token of
\* the processed message names.
C15_BookingOnlyOfOfferedSlot ==
    turn # None =>
        \A c \in DOMAIN CallsTo("create_meeting") :
            LET booking == CallsTo("create_meeting")[c]
                offered == TurnBefore.available_slots
                tokens  == Split(turn.text)
            IN  /\ TurnBefore.meeting_scheduling
                /\ \E n \in DOMAIN offered :
                       /\ offered[n].start = booking.start
                       /\ offered[n].end = booking.end
                       /\ \E t \in DOMAIN tokens :
                              IsInteger(tokens[t]) /\ IntOf(tokens[t]) = n

\* C15 witness: a turn invoked create_meeting.
C15_Witness ==
    /\ turn # None
    /\ CallsTo("create_meeting") # <<>>
    /\ Len(TurnBefore.available_slots) >= 2

\* C17: processing a message of one user leaves the session record of every
\* other user (transcript, meeting_scheduling, available_slots) as it was,
\* in whatever order the turns of the users follow one another.
C17_OtherSessionsUnchanged ==
    [][\A u \in Users :
           u # turn'.user_id => conversation_context'[u] = conversation_context[u]]_vars

\* C17 witness: a turn of one user has run while the other user's session
\* held a transcript and an outstanding offer.
C17_Witness ==
    /\ turn # None
    /\ \E u \in Users :
           /\ u # turn.user_id
           /\ conversation_context[u] # None
           /\ conversation_context[u].meeting_scheduling
           /\ conversation_context[u].available_slots # <<>>
           /\ conversation_context[u].messages # <<>>

\* The last turn started in AwaitingSelection and its message selected no slot
FailedSelection ==
    /\ turn # None
    /\ TurnBefore.meeting_scheduling
    /\ CallsTo("create_meeting") = <<>>

\* C19 as stated: in a turn that starts in AwaitingSelection
\* detect_meeting_intent is never invoked.
C19_NoClassifierWhileAwaiting ==
    (turn # None /\ TurnBefore.meeting_scheduling)
    => CallsTo("detect_meeting_intent") = <<>>

\* C19 amended: in a turn that starts in AwaitingSelection and whose message
\* fails selection parsing, detect_meeting_intent is invoked once on the
\* message, and whatever it answers the slot finder is not invoked and the
\* reply sent is the one get_response generated.
C19_ClassifierIgnoredWhileAwaiting ==
    FailedSelection =>
        /\ Len(CallsTo("detect_meeting_intent")) = 1
        /\ CallsTo("detect_meeting_intent")[1].text = turn.text
        /\ calls[1].op = "detect_meeting_intent"
        /\ CallsTo("get_available_slots") = <<>>
        /\ Len(CallsTo("get_response")) = 1
        /\ Len(Replies) = 1
        /\ Replies[1].text = CallsTo("get_response")[1].result

\* C19 witness: such a turn in which the classifier detected the intent to
\* meet.
C19_Witness ==
    /\ FailedSelection
    /\ CallsTo("detect_meeting_intent")[1].result

\* The message of the last turn selected a slot of the outstanding offer
SelectionSucceeded ==
    /\ turn # None
    /\ CallsTo("create_meeting") # <<>>

\* C21: a turn in which selection succeeds ends after the booking step:
\* neither detect_meeting_intent, nor get_available_slots, nor get_response
\* is invoked, and send_message is invoked exactly once.
C21_SelectionTurnEndsAfterBooking ==
    SelectionSucceeded =>
        /\ CallsTo("detect_meeting_intent") = <<>>
        /\ CallsTo("get_available_slots") = <<>>
        /\ CallsTo("get_response") = <<>>
        /\ Len(CallsTo("send_message")) = 1

\* The last turn started in AwaitingSelection and no token of its message is
\* an integer n with 1 <= n <= the number of offered slots
NoValidSelectionToken ==
    /\ turn # None
    /\ TurnBefore.meeting_scheduling
    /\ ValidPositions(Split(turn.text), Len(TurnBefore.available_slots)) = {}

\* C22: from AwaitingSelection a message with no valid selection token
\* leaves the session awaiting selection with the same offered slots in the
\* same order, whatever the classifier answers; get_available_slots is not
\* invoked and the reply is the one get_response returned.
C22_InvalidSelectionKeepsOffer ==
    NoValidSelectionToken =>
        /\ TurnAfter.meeting_scheduling
        /\ TurnAfter.available_slots = TurnBefore.available_slots
        /\ CallsTo("create_meeting") = <<>>
        /\ CallsTo("get_available_slots") = <<>>
        /\ Len(CallsTo("get_response")) = 1
        /\ Len(Replies) = 1
        /\ Replies[1].text = CallsTo("get_response")[1].result

\* C22 witness: such a turn whose message the classifier took for a wish to
\* meet, its reply delivered, with several slots still on offer.
C22_Witness ==
    /\ NoValidSelectionToken
    /\ turn.env.intent = "yes"
    /\ Replies[1].ok
    /\ Len(TurnAfter.available_slots) >= 2

\* The collaborators of a turn
Collaborators ==
    {"detect_meeting_intent", "get_available_slots", "create_meeting", "get_response"}

\* The operations the last turn invoked, in order
OpsOfTurn == [i \in DOMAIN calls |-> calls[i].op]

\* The operations of a turn processed by the rules of process_message, given
\* the session state it started from, its message and the classifier's answer
NormalOps ==
    LET selecting ==
            /\ TurnBefore.meeting_scheduling
            /\ ValidPositions(Split(turn.text), Len(TurnBefore.available_slots)) # {}
        replying ==
            IF calls[1].result /\ ~TurnBefore.meeting_scheduling
            THEN "get_available_slots" ELSE "get_response"
    IN  (IF selecting THEN <<"create_meeting", "send_message">>
         ELSE <<"detect_meeting_intent", replying, "send_message">>)
        \o (IF turn.raised THEN <<"send_message">> ELSE <<>>)

\* The turn before the last one of the same user ended in a failure: its
\* reply was not recorded (the send raised) or was the fallback text
FollowsFailedTurn ==
    /\ turn # None
    /\ TurnBefore.messages # <<>>
    /\ LET last == TurnBefore.messages[Len(TurnBefore.messages)]
       IN  \/ last.role = "user"
           \/ last.content = [kind |-> "reply_apology"]
           \/ (last.content.kind = "confirmation" /\ last.content.link = None)
           \/ last.content = NoSlotsText

\* C23: in a turn each collaborator is invoked at most once, also when it
\* fails, and every turn, one that follows a failed turn included, invokes
\* exactly the operations the rules prescribe for the session state and the
\* message: nothing of an earlier failure is retried or skipped.
C23_NoRetriesNormalNextTurn ==
    turn # None =>
        /\ \A op \in Collaborators : Len(CallsTo(op)) <= 1
        /\ OpsOfTurn = NormalOps

\* C23 witness: after a turn that ended in a failure, a turn in which every
\* collaborator call and the send succeeded.
C23_Witness ==
    /\ FollowsFailedTurn
    /\ ~turn.raised
    /\ ~CollaboratorFailed
    /\ Len(calls) >= 3

\* The last turn took the session from Idle to AwaitingSelection
EnteredAwaitingSelection ==
    /\ turn # None
    /\ ~TurnBefore.meeting_scheduling
    /\ TurnAfter.meeting_scheduling

\* C25: a turn leaves the session in AwaitingSelection, having found it
\* Idle, only if the send of the numbered offer returned in that turn; when
\* the send of the offer raises, the session is Idle at the end of the turn.
C25_AwaitingOnlyIfOfferSent ==
    /\ EnteredAwaitingSelection =>
           \E r \in DOMAIN Replies :
               /\ Replies[r].ok
               /\ Replies[r].text = OfferText(TurnAfter.available_slots)
    /\ (turn # None /\ ~TurnBefore.meeting_scheduling
        /\ \E r \in DOMAIN Replies : ~Replies[r].ok)
       => ~TurnAfter.meeting_scheduling

----------------------------------------------------------------------------
(* Properties of the step-by-step handling (specification StepSpec) *)

\* An invocation is inside process_message: it has read the session and has
\* not returned
InProcessMessage(h) ==
    handlers[h].pc \notin {"idle", "get_contacts", "done"}

\* C16: for one session, no two invocations are inside process_message at
\* the same time: the handling of a message completes before the handling of
\* the next message of that session begins.
C16_OneInvocationPerSession ==
    \A g, h \in Handlers :
        (g # h /\ InProcessMessage(g) /\ InProcessMessage(h))
        => handlers[g].user_id # handlers[h].user_id

\* The transcript of user_id holds text as an assistant message
InTranscript(user_id, text) ==
    \E m \in DOMAIN ContextOf(user_id).messages :
        /\ ContextOf(user_id).messages[m].role = "assistant"
        /\ ContextOf(user_id).messages[m].content = text

\* C20: a reply is in the session's transcript from the moment send_message
\* is called for it: while an invocation awaits the send of its reply or
\* confirmation, and for every send_message call made so far, returned or
\* raised, the text is an assistant message of the transcript.
C20_ReplyRecordedBeforeSend ==
    /\ \A h \in Handlers :
           handlers[h].pc \in {"send_confirmation", "send_reply"}
           => InTranscript(handlers[h].user_id, handlers[h].response)
    /\ \A i \in DOMAIN calls :
           calls[i].op = "send_message" => InTranscript(calls[i].to, calls[i].text)

\* The invocations whose frame a step changes
Stepping == {h \in Handlers : handlers'[h] # handlers[h]}

\* Every step of an invocation leaves the sessions of the other users as
\* they were, also when invocations of different users interleave.
StepsLeaveOtherSessions ==
    [][\A u \in Users :
           (\A h \in Stepping : handlers'[h].user_id # u)
           => conversation_context'[u] = conversation_context[u]]_vars

----------------------------------------------------------------------------
(* Properties of the handling of an outstanding offer (specification
   OfferedSpec) *)

\* The create_meeting calls so far that returned a link
BookingSucceeded(i) == calls[i].op = "create_meeting" /\ calls[i].result # None

\* A slot lookup so far whose result was stored as a new offer
OfferMade(i) == calls[i].op = "get_available_slots" /\ calls[i].result # <<>>

\* C24: for each outstanding offer at most one create_meeting call succeeds:
\* between two successful calls a new offer has been made, whatever messages
\* arrive and whenever they arrive.
C24_OneBookingPerOffer ==
    \A i, j \in DOMAIN calls :
        (i < j /\ BookingSucceeded(i) /\ BookingSucceeded(j))
        => \E k \in DOMAIN calls : i < k /\ k < j /\ OfferMade(k)

----------------------------------------------------------------------------
(* Properties of the state machine with the wall clock (specification
   ClockSpec) *)

\* C26: create_meeting is never invoked with a slot that starts before the
\* instant at which the selecting message is processed, however much time
\* has passed since the offer was made.
C26_NoBookingInThePast ==
    turn # None =>
        \A c \in DOMAIN CallsTo("create_meeting") :
            CallsTo("create_meeting")[c].start >= turn.at

----------------------------------------------------------------------------
(* Properties of starting and stopping (specification LifeSpec) *)

\* _start has returned and the Telegram client is stopped
BotExited == life.pc = "exited" /\ ~life.connected

\* C27: once stop() has been called, at whatever point of _start, the run
\* loop eventually exits and the client is stopped, so the controller does
\* not go on showing "stopped" while the bot runs.
C27_StopEventuallyExits ==
    (life.stop_called /\ life.status = "stopped") ~> BotExited

====
